---- MODULE Spec2Model ----
(***************************************************************************)
(* StreamAsyncToIterator (src/lib/stream-to-async-iterator.js): the        *)
(* adapter that turns a readable stream's "readable" / "end" / "error"     *)
(* notifications into a pull-based next().                                 *)
(*                                                                         *)
(* One next() call is a chain of frames: a frame that awaits a race, and   *)
(* the frame its continuation starts with `return this.next()`.  The       *)
(* promise of the outer frame is locked to the promise of the inner one,   *)
(* so the call's result is the result of the innermost frame, and a call   *)
(* is recorded as settled in the step in which that frame returns or       *)
(* throws.  Promise reactions run in FIFO order (the microtask queue);     *)
(* every race needs the same number of reaction jobs between the           *)
(* settlement of one of its two promises and its continuation, so a race   *)
(* is queued once, when the first of its two promises settles.  A          *)
(* notification of the source is one atomic step (emit() calls the         *)
(* listeners synchronously), and may happen between any two reactions.     *)
(***************************************************************************)
EXTENDS Integers, Sequences, FiniteSets, TLC

\* ---------------------------------------------------------------- bounds
\* next() calls the consumer makes over a run
MaxCalls == 2
\* notifications (of any kind) the source emits over a run
MaxEvents == 3

\* ---------------------------------------------------------------- values
states == [notReadable |-> "notReadable", readable |-> "readable",
           ended |-> "ended", errored |-> "errored"]

Null == "null"

\* the values the source's "error" notification may carry
Errors == {"E1", "E2"}

\* the i-th chunk the source makes available
ChunkNames == <<"d1", "d2", "d3", "d4", "d5", "d6", "d7", "d8">>
Chunk(i) == ChunkNames[i]

\* options.size: <<>> is "no size given", <<n>> is size n
SizeOptions == {<<>>, <<0>>, <<2>>}

\* the argument list of a call of stream.read: <<>> is read(), <<n>> is read(n)
NoArgs == <<>>

VARIABLES
    state,              \* this._state
    error,              \* this._error
    size,               \* this._size
    rejections,         \* this._rejections, in insertion order
    readableListeners,  \* the stream's "readable" listeners, in order
    endListeners,       \* the stream's "end" listeners added by _untilEnd
    onceError,          \* handleStreamError is still attached
    onceEnd,            \* handleStreamEnd is still attached
    races,              \* the races created so far, by race id
    microtasks,         \* races whose continuation is queued, FIFO
    calls,              \* the next() calls made so far, by call id
    buffer,             \* the source: chunks available to read()
    produced,           \* the source: chunks made available so far
    emitted,            \* the source: notifications emitted so far
    firstError,         \* history: the value of the first "error" emitted
    endedClean,         \* history: "end" was emitted with no "error" before
    reads,              \* history: the non-null results of read(), in order
    readArgs,           \* history: the argument lists read() was called with
    readStates,         \* history: this._state at each call of read()
    availableAtEnd      \* history: the chunks available at the first "end"

vars == <<state, error, size, rejections, readableListeners, endListeners,
          onceError, onceEnd, races, microtasks, calls, buffer, produced,
          emitted, firstError, endedClean, reads, readArgs, readStates,
          availableAtEnd>>

\* The whole state as one record, so that the synchronous code of a handler
\* is a composition of functions on it.
Store ==
    [state |-> state, error |-> error, size |-> size, rejections |-> rejections,
     readableListeners |-> readableListeners, endListeners |-> endListeners,
     onceError |-> onceError, onceEnd |-> onceEnd, races |-> races,
     microtasks |-> microtasks, calls |-> calls, buffer |-> buffer,
     produced |-> produced, emitted |-> emitted, firstError |-> firstError,
     endedClean |-> endedClean, reads |-> reads,
     readArgs |-> readArgs, readStates |-> readStates,
     availableAtEnd |-> availableAtEnd]

Commit(s) ==
    /\ state' = s.state
    /\ error' = s.error
    /\ size' = s.size
    /\ rejections' = s.rejections
    /\ readableListeners' = s.readableListeners
    /\ endListeners' = s.endListeners
    /\ onceError' = s.onceError
    /\ onceEnd' = s.onceEnd
    /\ races' = s.races
    /\ microtasks' = s.microtasks
    /\ calls' = s.calls
    /\ buffer' = s.buffer
    /\ produced' = s.produced
    /\ emitted' = s.emitted
    /\ firstError' = s.firstError
    /\ endedClean' = s.endedClean
    /\ reads' = s.reads
    /\ readArgs' = s.readArgs
    /\ readStates' = s.readStates
    /\ availableAtEnd' = s.availableAtEnd

\* ------------------------------------------------------------ sequences
Remove(seq, x) == SelectSeq(seq, LAMBDA y : y # x)

Range(seq) == {seq[i] : i \in 1..Len(seq)}

\* ------------------------------------------------------------- promises
\* a reject callback of this._rejections: the promise it belongs to
Reject(r, side) == <<r, side>>

\* A promise of race r settles.  The first of the two to settle decides the
\* race (Promise.race) and queues the continuation of the awaiting frame.
Settle(s, r, side, how, err) ==
    IF s.races[r][side] # "pending" THEN s
    ELSE LET first == s.races[r].outcome = "none"
         IN [s EXCEPT
               !.races[r][side] = how,
               !.races[r].outcome = IF first THEN how ELSE @,
               !.races[r].err = IF first THEN err ELSE @,
               !.microtasks = IF first THEN Append(@, r) ELSE @]

\* ------------------------------------------------------- wait primitives
NewRace(c) ==
    [owner |-> c, read |-> "pending", end |-> "pending", outcome |-> "none",
     err |-> Null, resumed |-> FALSE,
     \* history: how often each eventListener ran, how often each reject was
     \* called, and whether this._error and this._state were set by then
     fired |-> [read |-> 0, end |-> 0],
     rejectCalls |-> [read |-> 0, end |-> 0],
     rejectedAfterStore |-> TRUE]

\* _untilReadable's eventListener of race r
ReadableListener(s, r) ==
    Settle([s EXCEPT !.state = states.readable,
                     !.rejections = Remove(@, Reject(r, "read")),
                     !.races[r].fired.read = @ + 1],
           r, "read", "resolved", Null)

\* _untilEnd's eventListener of race r
EndListener(s, r) ==
    Settle([s EXCEPT !.state = states.ended,
                     !.rejections = Remove(@, Reject(r, "end")),
                     !.races[r].fired.end = @ + 1],
           r, "end", "resolved", Null)

\* _untilReadable's promise executor for the new race r
_untilReadable(s, r) ==
    [s EXCEPT !.readableListeners = Append(@, r),
              !.rejections = Append(@, Reject(r, "read"))]

\* _untilEnd's promise executor for the new race r
_untilEnd(s, r) ==
    [s EXCEPT !.endListeners = Append(@, r),
              !.rejections = Append(@, Reject(r, "end"))]

\* a read.cleanup() that detaches every "readable" listener
CleanupReadableRemovesAll(s, r) ==
    [s EXCEPT !.readableListeners = <<>>]

\* read.cleanup() of race r
CleanupReadable(s, r) ==
    [s EXCEPT !.readableListeners = Remove(@, r)]

\* an end.cleanup() that leaves the listener attached
CleanupEndForgotten(s, r) == s

\* end.cleanup() of race r
CleanupEnd(s, r) ==
    [s EXCEPT !.endListeners = Remove(@, r)]

\* ------------------------------------------------- permanent subscriptions
\* reject(err) of the promise rej belongs to
InvokeReject(s, rej, err) ==
    LET r == rej[1]
        side == rej[2]
    IN Settle([s EXCEPT
                 !.races[r].rejectCalls[side] = @ + 1,
                 !.races[r].rejectedAfterStore =
                     @ /\ s.error = err /\ s.state = states.errored],
              r, side, "rejected", err)

\* every reject of this._rejections is called with err, in insertion order
RECURSIVE RejectAll(_, _, _)
RejectAll(s, rejs, err) ==
    IF rejs = <<>> THEN s
    ELSE RejectAll(InvokeReject(s, Head(rejs), err), Tail(rejs), err)

\* a handler that rejects the waiters before it stores the error
handleStreamErrorRejectsFirst(s, err) ==
    [RejectAll(s, s.rejections, err)
        EXCEPT !.error = err, !.state = states.errored]

handleStreamError(s, err) ==
    RejectAll([s EXCEPT !.error = err, !.state = states.errored],
              s.rejections, err)

handleStreamEnd(s) ==
    [s EXCEPT !.state = states.ended]

\* ------------------------------------------------------------------ next
\* stream.read(...): the next available chunk, or null when there is none
StreamRead(s) ==
    IF s.buffer = <<>> THEN Null ELSE Head(s.buffer)

\* a read that never passes the size
ReadArgumentsWithoutSize(sz) == NoArgs

\* the argument list of the read: `this._size ? read(this._size) : read()`
ReadArguments(sz) ==
    IF sz # <<>> /\ sz[1] # 0 THEN sz ELSE NoArgs

\* the frame of call c settles its promise chain
Resolve(s, c, done, value) ==
    [s EXCEPT !.calls[c].status = "resolved",
              !.calls[c].done = done,
              !.calls[c].value = value,
              !.calls[c].missed = IF done
                                  THEN Range(s.availableAtEnd) \ Range(s.reads)
                                  ELSE {}]

Throw(s, c, err) ==
    [s EXCEPT !.calls[c].status = "rejected", !.calls[c].err = err]

\* the notReadable branch up to the await: both waits are created and the
\* frame is suspended on their race
Suspend(s, c) ==
    LET r == Len(s.races) + 1
        s1 == [s EXCEPT !.races = Append(@, NewRace(c)),
                        !.calls[c].race = r,
                        !.calls[c].waits = @ + 1]
    IN _untilEnd(_untilReadable(s1, r), r)

\* the source's side of a read, and its record in the history
DoRead(s, c) ==
    [s EXCEPT !.buffer = IF @ = <<>> THEN @ ELSE Tail(@),
              !.reads = IF StreamRead(s) = Null THEN @
                        ELSE Append(@, StreamRead(s)),
              !.readArgs = @ \cup {ReadArguments(s.size)},
              !.readStates = @ \cup {s.state},
              !.calls[c].got = Append(@, StreamRead(s))]

RECURSIVE next(_, _)

\* a readable branch that reads once to test and once more to return
ReadableBranchReadsAgain(s, c, data) ==
    IF data # Null
    THEN Resolve(DoRead(s, c), c, FALSE, StreamRead(s))
    ELSE next([s EXCEPT !.state = states.notReadable], c)

\* a readable branch without the `data !== null` test
ReadableBranchReturnsEmpty(s, c, data) ==
    Resolve(s, c, FALSE, data)

\* the readable branch: what the frame does with the data it read
ReadableBranch(s, c, data) ==
    IF data # Null
    THEN Resolve(s, c, FALSE, data)
    ELSE next([s EXCEPT !.state = states.notReadable], c)

\* a next() that waits in every state but readable and errored
nextWaitsUnlessReadable(s, c) ==
    IF s.state \in {states.notReadable, states.ended}
    THEN Suspend(s, c)
    ELSE IF s.state = states.errored
    THEN Throw(s, c, s.error)
    ELSE ReadableBranch(DoRead(s, c), c, StreamRead(s))

\* a next() that reads whenever the source has a chunk, whatever this._state
nextReadsWhenAvailable(s, c) ==
    IF s.state = states.ended THEN Resolve(s, c, TRUE, Null)
    ELSE IF s.state = states.errored THEN Throw(s, c, s.error)
    ELSE IF s.state = states.notReadable /\ s.buffer = <<>> THEN Suspend(s, c)
    ELSE ReadableBranch(DoRead(s, c), c, StreamRead(s))

\* next(), from its entry to its first await or its return
next(s, c) ==
    IF s.state = states.notReadable THEN Suspend(s, c)
    ELSE IF s.state = states.ended THEN Resolve(s, c, TRUE, Null)
    ELSE IF s.state = states.errored THEN Throw(s, c, s.error)
    ELSE ReadableBranch(DoRead(s, c), c, StreamRead(s))

\* the continuation of the frame that awaited race r: try / catch / finally
Continuation(s, r) ==
    LET c == s.races[r].owner
        s0 == [s EXCEPT !.races[r].resumed = TRUE]
        s1 == IF s.races[r].outcome = "resolved"
              THEN next(s0, c)
              ELSE Throw(s0, c, s.races[r].err)
    IN CleanupEnd(CleanupReadable(s1, r), r)

\* --------------------------------------------------------------- history
Pending(s) == {c \in 1..Len(s.calls) : s.calls[c].status = "pending"}

\* the source emits ev ("readable", "end" or an error value): the history
\* records it, and every call that is pending sees what it stands for
Notify(s, ev) ==
    LET first == IF s.firstError = Null /\ ev \in Errors THEN ev
                 ELSE s.firstError
        clean == s.endedClean \/ (ev = "end" /\ s.firstError = Null)
    IN [s EXCEPT
          !.emitted = @ + 1,
          !.firstError = first,
          !.endedClean = clean,
          !.calls = [c \in 1..Len(@) |->
              IF @[c].status # "pending" THEN @[c]
              ELSE [@[c] EXCEPT !.sawEnd = clean, !.sawError = first]]]

NewCall(s) ==
    [status |-> "pending", done |-> FALSE, value |-> Null, err |-> Null,
     race |-> 0, waits |-> 0, got |-> <<>>, missed |-> {},
     stateAtCall |-> s.state, dataAtCall |-> s.buffer # <<>>,
     alone |-> Pending(s) = {},
     sawEnd |-> s.endedClean, sawError |-> s.firstError]

\* --------------------------------------------------------------- actions
\* emit(ev) calls the listeners attached when it starts, in order
RECURSIVE EmitReadableTo(_, _)
EmitReadableTo(s, listeners) ==
    IF listeners = <<>> THEN s
    ELSE EmitReadableTo(ReadableListener(s, Head(listeners)), Tail(listeners))

RECURSIVE EmitEndTo(_, _)
EmitEndTo(s, listeners) ==
    IF listeners = <<>> THEN s
    ELSE EmitEndTo(EndListener(s, Head(listeners)), Tail(listeners))

\* the source emits "readable", after making a chunk available or not
EmitReadable(newData) ==
    /\ emitted < MaxEvents
    /\ LET s0 == Notify(Store, "readable")
           s1 == IF newData
                 THEN [s0 EXCEPT !.buffer = Append(@, Chunk(produced + 1)),
                                 !.produced = @ + 1]
                 ELSE s0
       IN Commit(EmitReadableTo(s1, readableListeners))

\* the source emits "end": handleStreamEnd (once) first, then the listeners
EmitEnd ==
    /\ emitted < MaxEvents
    /\ LET s0 == [Notify(Store, "end") EXCEPT
                     !.availableAtEnd = IF onceEnd THEN buffer ELSE @]
           s1 == IF onceEnd
                 THEN handleStreamEnd([s0 EXCEPT !.onceEnd = FALSE])
                 ELSE s0
       IN Commit(EmitEndTo(s1, endListeners))

\* the source emits "error" with value err: handleStreamError (once)
EmitError(err) ==
    /\ emitted < MaxEvents
    /\ LET s0 == Notify(Store, err)
       IN Commit(IF onceError
                 THEN handleStreamError([s0 EXCEPT !.onceError = FALSE], err)
                 ELSE s0)

\* the consumer calls next()
CallNext ==
    /\ Len(calls) < MaxCalls
    /\ LET c == Len(calls) + 1
           s0 == [Store EXCEPT !.calls = Append(@, NewCall(Store))]
       IN Commit(next(s0, c))

\* the oldest queued continuation runs
RunMicrotask ==
    /\ microtasks # <<>>
    /\ Commit(Continuation([Store EXCEPT !.microtasks = Tail(@)],
                           Head(microtasks)))

\* the state after construction, for each options.size
Init ==
    /\ state = states.notReadable
    /\ error = Null
    /\ size \in SizeOptions
    /\ rejections = <<>>
    /\ readableListeners = <<>>
    /\ endListeners = <<>>
    /\ onceError = TRUE
    /\ onceEnd = TRUE
    /\ races = <<>>
    /\ microtasks = <<>>
    /\ calls = <<>>
    /\ buffer = <<>>
    /\ produced = 0
    /\ emitted = 0
    /\ firstError = Null
    /\ endedClean = FALSE
    /\ reads = <<>>
    /\ readArgs = {}
    /\ readStates = {}
    /\ availableAtEnd = <<>>

Next ==
    \/ \E newData \in BOOLEAN : EmitReadable(newData)
    \/ EmitEnd
    \/ \E err \in Errors : EmitError(err)
    \/ CallNext
    \/ RunMicrotask

Spec == Init /\ [][Next]_vars

\* continuations are reactions of promises: a queued one always gets to run
LiveSpec == Spec /\ WF_vars(RunMicrotask)

\* ------------------------------------------------------------ vocabulary
Call(c) == calls[c]

Settled(c) == Call(c).status # "pending"

\* no next() was called while another call was pending
Sequential == \A c \in 1..Len(calls) : Call(c).alone

\* the values of the done:false results, in the order of the calls
Delivered ==
    LET withData == SelectSeq(calls,
                        LAMBDA k : k.status = "resolved" /\ ~k.done)
    IN [i \in 1..Len(withData) |-> withData[i].value]

NonNull(seq) == SelectSeq(seq, LAMBDA x : x # Null)

TerminalStates == {states.ended, states.errored}

\* ---------------------------------------------------------------- claims

\* C1: for a consumer that calls next() sequentially, the values delivered
\* are, in order, the non-empty results of the source's read, and each
\* done:false result carries the one non-empty read made by its own call.
C1_DeliveredEqualsReads ==
    Sequential =>
        /\ Delivered = reads
        /\ \A c \in 1..Len(calls) :
              (Call(c).status = "resolved" /\ ~Call(c).done)
                  => NonNull(Call(c).got) = <<Call(c).value>>

\* two sequential calls delivered two chunks, one of them after a wait and
\* one after a read that returned nothing
C1_Witness ==
    /\ Sequential
    /\ Delivered = <<"d1", "d2">>
    /\ \E c \in 1..Len(calls) : Call(c).waits >= 1
    /\ \E c \in 1..Len(calls) : Len(Call(c).got) >= 2

\* C2: after "end" with no prior "error", every call pending at that moment
\* and every later call resolves with {done: true, value: null}.
C2_AfterEndDone ==
    \A c \in 1..Len(calls) :
        (Call(c).sawEnd /\ Settled(c))
            => (Call(c).status = "resolved" /\ Call(c).done
                /\ Call(c).value = Null)

\* C3: after "error" with value E, every call not yet settled at that
\* moment and every later call rejects with exactly E.
C3_AfterErrorRejects ==
    \A c \in 1..Len(calls) :
        (Call(c).sawError # Null /\ Settled(c))
            => (Call(c).status = "rejected" /\ Call(c).err = Call(c).sawError)

\* a read by call c returned nothing in this step
ReadEmpty(c) ==
    LET before == IF c <= Len(calls) THEN calls[c].got ELSE <<>>
        after == calls'[c].got
    IN Len(after) > Len(before) /\ after[Len(after)] = Null

\* call c is suspended on a race created in this step, with both listeners
\* attached and both rejects registered
Resuspended(c) ==
    LET r == calls'[c].race
    IN /\ calls'[c].status = "pending"
       /\ r > Len(races)
       /\ races'[r].owner = c
       /\ races'[r].outcome = "none"
       /\ r \in Range(readableListeners')
       /\ r \in Range(endListeners')
       /\ Reject(r, "read") \in Range(rejections')
       /\ Reject(r, "end") \in Range(rejections')

\* C4: no call resolves with {done: false, value: null}; a read that yields
\* no data sets the state to notReadable and re-suspends the call on a fresh
\* race.
C4_NoEmptyResult ==
    /\ [](\A c \in 1..Len(calls) :
            (Call(c).status = "resolved" /\ ~Call(c).done)
                => Call(c).value # Null)
    /\ [][\A c \in 1..Len(calls') :
            ReadEmpty(c) => (state' = states.notReadable /\ Resuspended(c))]_vars

\* a call was woken twice by "readable", read nothing both times, and is
\* suspended for the third time
C4_Witness ==
    \E c \in 1..Len(calls) :
        /\ Call(c).got = <<Null, Null>>
        /\ Call(c).waits = 3
        /\ Call(c).status = "pending"

\* C5: a pending call for which the source has emitted "end" or "error"
\* eventually settles, when queued continuations always get to run.
C5_PendingSettles ==
    \A c \in 1..MaxCalls :
        []((c <= Len(calls) /\ ~Settled(c)
                /\ (Call(c).sawEnd \/ Call(c).sawError # Null))
            => <>(c <= Len(calls) /\ Settled(c)))

\* C6: when calls have been made and none is pending, no listener of a wait
\* primitive is attached to the source.
C6_NoListenerLeft ==
    (Len(calls) > 0 /\ Pending(Store) = {})
        => (readableListeners = <<>> /\ endListeners = <<>>)

\* every call has settled, one of them after being suspended twice and one
\* of them by a race that failed
C6_Witness ==
    /\ Pending(Store) = {}
    /\ \E c \in 1..Len(calls) : Call(c).waits >= 2
    /\ \E c \in 1..Len(calls) : Call(c).status = "rejected" /\ Call(c).waits >= 1

\* C7: once the state is ended or errored, no step changes it.
C7_TerminalStateIsFinal ==
    [][(state \in TerminalStates) => (state' = state)]_vars

\* C8 as stated: a call made while the source has a chunk available (and
\* the adapter has neither ended nor errored) is never suspended.
C8_AvailableDataNeverWaits ==
    \A c \in 1..Len(calls) :
        (Call(c).dataAtCall /\ Call(c).stateAtCall \notin TerminalStates)
            => Call(c).waits = 0

\* C8, amended: a call made in state readable with a chunk available
\* resolves with that chunk without being suspended; a call made in state
\* notReadable is suspended, whatever the source has available, and so is a
\* call made in state readable when the source has nothing.
C8_ReadsOnlyWhenStateReadable ==
    \A c \in 1..Len(calls) :
        /\ (Call(c).stateAtCall = states.readable /\ Call(c).dataAtCall)
              => (Call(c).waits = 0 /\ Call(c).status = "resolved"
                  /\ ~Call(c).done /\ Call(c).got = <<Call(c).value>>)
        /\ (Call(c).stateAtCall = states.readable /\ ~Call(c).dataAtCall)
              => (Call(c).waits >= 1 /\ Head(Call(c).got) = Null)
        /\ (Call(c).stateAtCall = states.notReadable)
              => Call(c).waits >= 1

\* the first call found a chunk available in state notReadable and was
\* suspended; the second found one in state readable and was not
C8_Witness ==
    /\ Len(calls) = 2
    /\ Call(1).stateAtCall = states.notReadable
    /\ Call(1).dataAtCall
    /\ Call(1).waits = 1
    /\ Call(2).stateAtCall = states.readable
    /\ Call(2).dataAtCall
    /\ Call(2).waits = 0
    /\ Call(2).status = "resolved"

\* C9: the error slot is non-empty exactly when the state is errored, and
\* it holds the value of the first "error" the source emitted.
C9_ErrorIffErrored ==
    /\ (error # Null) <=> (state = states.errored)
    /\ error = firstError

Sides == {"read", "end"}
RaceIds == 1..Len(races)
WaitOf(r, side) == IF side = "read" THEN races[r].read ELSE races[r].end

\* the waits whose promise is pending and whose race has not been cleaned up
Outstanding ==
    {rej \in RaceIds \X Sides :
        WaitOf(rej[1], rej[2]) = "pending" /\ ~races[rej[1]].resumed}

\* C11: pendingWaiters holds exactly the reject-callbacks of the waits that
\* are still outstanding, so its size is their number and no waiter of a
\* race that has settled and been cleaned up remains in it.
C11_RegistryMatchesOutstanding ==
    /\ Range(rejections) = Outstanding
    /\ Len(rejections) = Cardinality(Outstanding)

\* a step of a next() frame: a call of next() or a resumed continuation
FrameStep == emitted' = emitted
ErrorHandlerStep == onceError /\ ~onceError'

\* C12: a next() frame that runs while the state is Ended or Errored issues
\* no read, adds no listener and no pendingWaiters entry, leaves state and
\* error unchanged, and settles its call in that very step: with
\* { done: true, value: null } when Ended, with the stored error when Errored.
C12_TerminalNextHasNoEffect ==
    [][(state \in TerminalStates /\ FrameStep) =>
         /\ state' = state
         /\ error' = error
         /\ rejections' = rejections
         /\ Len(races') = Len(races)
         /\ reads' = reads
         /\ readStates' = readStates
         /\ buffer' = buffer
         /\ \A c \in 1..Len(calls) : calls'[c].got = calls[c].got
         /\ Range(readableListeners') \subseteq Range(readableListeners)
         /\ Range(endListeners') \subseteq Range(endListeners)
         /\ (Len(calls') > Len(calls)) =>
                LET k == calls'[Len(calls')]
                IN /\ readableListeners' = readableListeners
                   /\ endListeners' = endListeners
                   /\ microtasks' = microtasks
                   /\ k.waits = 0 /\ k.got = <<>>
                   /\ (state = states.ended) =>
                         (k.status = "resolved" /\ k.done /\ k.value = Null)
                   /\ (state = states.errored) =>
                         (k.status = "rejected" /\ k.err = error)
         /\ (microtasks' # microtasks) =>
                calls'[races[Head(microtasks)].owner].status # "pending"
    ]_vars

C12_Witness ==
    /\ \E c \in 1..Len(calls) :
          /\ Call(c).stateAtCall = states.ended
          /\ Call(c).status = "resolved" /\ Call(c).done /\ Call(c).waits = 0
    /\ \E c \in 1..Len(calls) :
          /\ Call(c).stateAtCall = states.errored
          /\ Call(c).status = "rejected" /\ Call(c).waits = 0

\* C13: the error handler stores the error and sets the state to Errored
\* before it calls a reject-callback; it calls every reject-callback that is
\* in pendingWaiters exactly once and no other; no reject-callback is called
\* outside the handler, so none is ever called twice.
C13_RejectsOnceAfterStore ==
    /\ [](\A r \in RaceIds :
            /\ races[r].rejectCalls.read <= 1
            /\ races[r].rejectCalls.end <= 1
            /\ races[r].rejectedAfterStore)
    /\ [][/\ ErrorHandlerStep =>
               /\ error' # Null
               /\ error' = firstError'
               /\ state' = states.errored
               /\ \A r \in RaceIds : \A side \in Sides :
                     races'[r].rejectCalls[side] =
                         races[r].rejectCalls[side]
                           + (IF Reject(r, side) \in Range(rejections)
                              THEN 1 ELSE 0)
          /\ ~ErrorHandlerStep =>
               \A r \in RaceIds :
                   races'[r].rejectCalls = races[r].rejectCalls
      ]_vars

C13_Witness ==
    /\ Cardinality({r \in RaceIds :
                      races[r].rejectCalls = [read |-> 1, end |-> 1]}) >= 2
    /\ \E r \in RaceIds :
          races[r].resumed /\ races[r].rejectCalls = [read |-> 0, end |-> 1]

\* C14: a wait's listener runs at most once per wait: an event emitted again
\* before cleanup has run does not invoke it a second time.
C14_ListenerFiresOnce ==
    \A r \in RaceIds :
        races[r].fired.read <= 1 /\ races[r].fired.end <= 1

\* C15: cleanup changes nothing but the listener list of its own event, from
\* which it removes its own listener; calling it again changes nothing; and
\* once the listener has fired, cleanup changes nothing at all.
C15_CleanupOnlyDetaches ==
    \A r \in RaceIds :
        LET a == CleanupReadable(Store, r)
            b == CleanupEnd(Store, r)
        IN /\ a = [Store EXCEPT !.readableListeners = Remove(@, r)]
           /\ b = [Store EXCEPT !.endListeners = Remove(@, r)]
           /\ CleanupReadable(a, r) = a
           /\ CleanupEnd(b, r) = b
           /\ (races[r].fired.read > 0) => (a = Store)
           /\ (races[r].fired.end > 0) => (b = Store)

\* C16: read() is called only by a next() frame and only while the state is
\* Readable: every read saw the state Readable, a step in which the stream
\* emits an event reads nothing, and a call resolved with data made exactly
\* one read that returned data, its value.
C16_ReadsOnlyInNextWhileReadable ==
    /\ [](/\ readStates \subseteq {states.readable}
          /\ \A c \in 1..Len(calls) :
                (Call(c).status = "resolved" /\ ~Call(c).done)
                    => NonNull(Call(c).got) = <<Call(c).value>>)
    /\ [][~FrameStep =>
             /\ reads' = reads
             /\ readStates' = readStates
             /\ readArgs' = readArgs
             /\ Len(buffer') >= Len(buffer)
             /\ \A c \in 1..Len(calls) : calls'[c].got = calls[c].got
      ]_vars

C16_Witness ==
    /\ readStates = {states.readable}
    /\ \E c \in 1..Len(calls) :
          /\ Call(c).status = "resolved" /\ ~Call(c).done
          /\ Len(Call(c).got) = 2 /\ Call(c).got[1] = Null
    /\ \E c \in 1..Len(calls) : ~Call(c).alone

\* C17: for a sequential consumer, when a call resolves with done: true every
\* chunk that was available when the source emitted "end" has been delivered
\* by an earlier call.
C17_NoDataSkippedAtEnd ==
    Sequential =>
        \A c \in 1..Len(calls) :
            (Call(c).status = "resolved" /\ Call(c).done)
                => Call(c).missed = {}

Overlapping == {c \in 1..Len(calls) : ~Call(c).alone}

\* C18: with overlapping next() calls, every chunk a read returned is the
\* value of exactly one call, a call that read nothing never resolves with
\* that empty result, and every overlapping call that was pending at "end"
\* or made after it settles with done: true.
C18_ConcurrentCallsShareSource ==
    /\ \A i \in 1..Len(reads) :
          Cardinality({c \in 1..Len(calls) :
                          /\ Call(c).status = "resolved"
                          /\ ~Call(c).done
                          /\ Call(c).value = reads[i]}) = 1
    /\ \A c \in Overlapping :
          (Call(c).status = "resolved" /\ ~Call(c).done)
              => /\ Call(c).value # Null
                 /\ Call(c).got[Len(Call(c).got)] = Call(c).value
    /\ \A c \in Overlapping :
          (Call(c).sawEnd /\ Settled(c))
              => (Call(c).status = "resolved" /\ Call(c).done)

Attached(r) == r \in Range(readableListeners) /\ r \in Range(endListeners)
NewRaces == {r \in 1..Len(races') : r > Len(races)}

\* C19: the cleanup of a settled race detaches the two listeners of that race
\* and no other: every race whose continuation has not run keeps both its
\* listeners, whether it belongs to the retry inside the continuation or to
\* another pending call, and a call of next() detaches nothing.
C19_CleanupRemovesOnlyOwnListeners ==
    /\ [](\A r \in RaceIds : ~races[r].resumed => Attached(r))
    /\ [][/\ (FrameStep /\ microtasks # <<>> /\ microtasks' # microtasks) =>
               LET r == Head(microtasks)
               IN /\ Range(readableListeners') =
                        (Range(readableListeners) \ {r}) \cup NewRaces
                  /\ Range(endListeners') =
                        (Range(endListeners) \ {r}) \cup NewRaces
          /\ (Len(calls') > Len(calls)) =>
               /\ Range(readableListeners') =
                     Range(readableListeners) \cup NewRaces
               /\ Range(endListeners') = Range(endListeners) \cup NewRaces
      ]_vars

C19_Witness ==
    \E c, k \in 1..Len(calls) :
        /\ c # k
        /\ Call(c).status = "pending" /\ Call(c).waits >= 2
        /\ Call(k).status = "pending"
        /\ Call(c).race # Call(k).race
        /\ Attached(Call(c).race) /\ races[Call(c).race].outcome = "none"
        /\ Attached(Call(k).race) /\ races[Call(k).race].outcome = "none"
        /\ \E r \in RaceIds : races[r].resumed /\ ~Attached(r)

====
